---- MODULE Spec2Model ----
(***************************************************************************)
(* A model of ply2.py: create() and verify() over the nest of Python       *)
(* dictionaries that represents a ply 2 file.                              *)
(*                                                                         *)
(* Python values are records tagged with their Python type (field t).      *)
(* A Python string that is inspected character by character (a name, a     *)
(* comment line) is a sequence of characters; the enumerated strings of    *)
(* 'format' and 'compress' are TLA+ strings.  A Python 2 dict is the       *)
(* sequence of its <<key, value>> pairs in the dict's iteration order,     *)
(* with distinct keys; the root dictionary is a function on its keys.      *)
(***************************************************************************)
EXTENDS Integers, Sequences, FiniteSets, TLC

VARIABLES data, pc, err, examined, snapshot, last, calls, origin

vars == <<data, pc, err, examined, snapshot, last, calls, origin>>

\* ---------------------------------------------------------------- bounds

\* Longest name or comment string drawn.
MaxLen == 3
\* Most dimensions of a drawn array shape.
MaxRank == 2
\* Most properties drawn for one element.
MaxProps == 2
\* Most cells of a drawn object array.
MaxCells == 3
\* Most entries of a drawn comment dictionary.
MaxComments == 2
\* Widest dtype itemsize drawn, in bytes.
MaxItemsize == 32
\* How many times verify is called on one document.
MaxCalls == 2

\* ------------------------------------------------------- Python values

Py(type, value) == [t |-> type, v |-> value]

None == Py("NoneType", "")

PyStr(s) == Py("str", s)

\* isinstance(x, basestring): str and unicode are the subclasses of basestring.
IsBasestring(x) == x.t \in {"str", "unicode"}

\* isinstance(x, int): in Python 2 bool is a subclass of int, long is not.
IsInt(x) == x.t \in {"int", "bool"}

\* isinstance(x, float)
IsFloat(x) == x.t = "float"

\* The characters str.split() and str.strip() treat as whitespace (of the alphabet drawn).
Whitespace == {" ", "\n"}

Chars == {"a"} \cup Whitespace

RECURSIVE lstrip(_)
lstrip(s) ==
  IF s = <<>> THEN <<>>
  ELSE IF Head(s) \in Whitespace THEN lstrip(Tail(s)) ELSE s

RECURSIVE rstrip(_)
rstrip(s) ==
  IF s = <<>> THEN <<>>
  ELSE IF s[Len(s)] \in Whitespace THEN rstrip(SubSeq(s, 1, Len(s) - 1)) ELSE s

\* str.strip(): the string without its leading and trailing whitespace.
strip(s) == rstrip(lstrip(s))

\* Length of the longest whitespace-free prefix of s.
RECURSIVE TokenLen(_)
TokenLen(s) ==
  IF s = <<>> \/ Head(s) \in Whitespace THEN 0 ELSE 1 + TokenLen(Tail(s))

\* str.split(): the maximal whitespace-free runs of s, in order.
RECURSIVE split(_)
split(s) ==
  IF s = <<>> THEN <<>>
  ELSE IF Head(s) \in Whitespace THEN split(Tail(s))
  ELSE <<SubSeq(s, 1, TokenLen(s))>> \o split(SubSeq(s, TokenLen(s) + 1, Len(s)))

\* len(x.split())!=1 or x.strip()!=x
\* Faulty variant: only the strip() test, so internal whitespace and the empty string pass.
NameHasWhitespaceStripOnly(s) == strip(s) # s
NameHasWhitespace(s) == Len(split(s)) # 1 \/ strip(s) # s

\* dict helpers over the <<key, value>> pair sequences.
Keys(d) == {d[j][1] : j \in 1..Len(d)}

Lookup(d, k) == d[CHOOSE j \in 1..Len(d) : d[j][1] = k][2]

\* ------------------------------------------------------------- errors

Raise(exc, msg) == [exc |-> exc, msg |-> msg]

\* verify returned normally.
OK == Raise("", "")

\* ------------------------------------------------------------- create

byteorders == {"little", "big"}

\* Faulty variant: the bzip2 mode misspelt.
createBz2Typo(binary, compress, byteorder) ==
  [k \in {"format", "meta", "comment", "compress", "element"} |->
     CASE k = "format" ->
            IF binary
              THEN (IF byteorder = "little" THEN "binary_little_endian" ELSE "binary_big_endian")
              ELSE "ascii"
       [] k = "compress" ->
            IF compress = 0 THEN None ELSE (IF compress = 1 THEN PyStr("gzip") ELSE PyStr("bz2"))
       [] OTHER -> <<>>]
create(binary, compress, byteorder) ==
  [k \in {"format", "meta", "comment", "compress", "element"} |->
     CASE k = "format" ->
            IF binary
              THEN (IF byteorder = "little" THEN "binary_little_endian" ELSE "binary_big_endian")
              ELSE "ascii"
       [] k = "compress" ->
            IF compress = 0 THEN None ELSE (IF compress = 1 THEN PyStr("gzip") ELSE PyStr("bzip2"))
       [] OTHER -> <<>>]

\* ------------------------------------------------- verify, by section

RootKeys == {"format", "type", "meta", "comment", "compress", "element"}

\* Check root keys are all valid...
VerifyRootKeys(d) ==
  IF ~(DOMAIN d \subseteq RootKeys)
    THEN Raise("KeyError", "Root dictionary includes disallowed keys.")
    ELSE OK

Formats == {"ascii", "binary_little_endian", "binary_big_endian"}

\* Make sure the format is valid...
VerifyFormat(d) ==
  IF "format" \in DOMAIN d /\ d["format"] \notin Formats
    THEN Raise("ValueError", "Unrecognised format.")
    ELSE OK

\* One pass of the loop over data['type'].
TypeItemError(item) ==
  IF ~IsBasestring(item) THEN Raise("TypeError", "Type must be a string.")
  ELSE IF NameHasWhitespace(item.v) THEN Raise("ValueError", "Type string contains whitespace.")
  ELSE OK

RECURSIVE TypeLoop(_, _)
TypeLoop(items, i) ==
  IF i > Len(items) THEN OK
  ELSE IF TypeItemError(items[i]) # OK THEN TypeItemError(items[i])
  ELSE TypeLoop(items, i + 1)

\* Check the type is sane...  data['type'] is a list, or a single string.
VerifyType(d) ==
  IF "type" \notin DOMAIN d THEN OK
  ELSE IF d["type"].t \in {"str", "unicode"}
    THEN Raise("TypeError", "Type must be a list of strings, not a single string.")
  ELSE TypeLoop(d["type"].v, 1)

\* One pass of the loop over data['meta'].
MetaItemError(key, value) ==
  IF ~IsBasestring(key) THEN Raise("TypeError", "Meta name is not a string.")
  ELSE IF NameHasWhitespace(key.v)
    THEN Raise("KeyError", "Name of meta variable contains white space.")
  ELSE IF ~(IsBasestring(value) \/ IsInt(value) \/ IsFloat(value))
    THEN Raise("TypeError", "Unsuported meta variable type.")
  ELSE OK

RECURSIVE MetaLoop(_, _)
MetaLoop(items, i) ==
  IF i > Len(items) THEN OK
  ELSE IF MetaItemError(items[i][1], items[i][2]) # OK
    THEN MetaItemError(items[i][1], items[i][2])
  ELSE MetaLoop(items, i + 1)

\* Make sure the meta key/value pairs are all valid...
VerifyMeta(d) == IF "meta" \in DOMAIN d THEN MetaLoop(d["meta"], 1) ELSE OK

\* One pass of the loop over xrange(len(data['comment'])).
\* Faulty variant: the new-line test left out.
CommentErrorNoNewline(comment, i) ==
  IF Py("int", i) \notin Keys(comment)
    THEN Raise("KeyError", "Comments not indexed with contiguous natural numbers starting at zero")
  ELSE IF ~IsBasestring(Lookup(comment, Py("int", i)))
    THEN Raise("ValueError", "Comment line not an instance of basestring.")
  ELSE OK
CommentError(comment, i) ==
  IF Py("int", i) \notin Keys(comment)
    THEN Raise("KeyError", "Comments not indexed with contiguous natural numbers starting at zero")
  ELSE IF ~IsBasestring(Lookup(comment, Py("int", i)))
    THEN Raise("ValueError", "Comment line not an instance of basestring.")
  ELSE IF \E j \in 1..Len(Lookup(comment, Py("int", i)).v) :
            Lookup(comment, Py("int", i)).v[j] = "\n"
    THEN Raise("ValueError", "Comment line contains new line.")
  ELSE OK

RECURSIVE CommentLoop(_, _)
CommentLoop(comment, i) ==
  IF i >= Len(comment) THEN OK
  ELSE IF CommentError(comment, i) # OK THEN CommentError(comment, i)
  ELSE CommentLoop(comment, i + 1)

\* Check the comments work...
VerifyComment(d) == IF "comment" \in DOMAIN d THEN CommentLoop(d["comment"], 0) ELSE OK

Compressions == {None, PyStr(""), PyStr("gzip"), PyStr("bzip2")}

\* Make the compresssion mode is valid...
VerifyCompress(d) ==
  IF "compress" \in DOMAIN d /\ d["compress"] \notin Compressions
    THEN Raise("ValueError", "Unrecognised format.")
    ELSE OK

\* ---------------------------------------------------- element section

\* numpy dtype: the scalar type's place in numpy's class hierarchy, and the itemsize.
Dtype(kind, itemsize) == [kind |-> kind, itemsize |-> itemsize]

\* A value with the attributes verify reads: shape, dtype and the cells of .flat.
Value(type, shape, dtype, flat) == [t |-> type, shape |-> shape, dtype |-> dtype, flat |-> flat]

ndarray(shape, dtype, flat) == Value("ndarray", shape, dtype, flat)

\* The cells of an object array: Python objects; a nested array has dtype and shape.
Cell(type, dtype, ndim) == [t |-> type, dtype |-> dtype, ndim |-> ndim]

CellNone == Cell("NoneType", Dtype("", 0), 0)

CellTrue == Cell("bool", Dtype("", 0), 0)

CellStr == Cell("str", Dtype("", 0), 0)

CellInt == Cell("int", Dtype("", 0), 0)

CellArray(dtype, ndim) == Cell("ndarray", dtype, ndim)

\* hasattr(x, 'dtype') and hasattr(x, 'shape')
HasDtype(x) == x.t = "ndarray"

\* The loop over arr.flat; base is None, True or the first cell that is no string.
RECURSIVE ObjectLoop(_, _, _)
ObjectLoop(flat, i, base) ==
  IF i > Len(flat) THEN OK
  ELSE IF base = CellNone
    THEN ObjectLoop(flat, i + 1, IF IsBasestring(flat[i]) THEN CellTrue ELSE flat[i])
  ELSE IF base = CellTrue
    THEN IF ~IsBasestring(flat[i])
           THEN Raise("TypeError", "All entrys in an element array of strings must be a string.")
           ELSE ObjectLoop(flat, i + 1, base)
  ELSE IF ~HasDtype(base) \/ ~HasDtype(flat[i])
    THEN Raise("AttributeError", "object has no attribute 'dtype'")
  ELSE IF base.dtype # flat[i].dtype \/ base.ndim # flat[i].ndim
    THEN Raise("TypeError", "All entrys in an array of arrays must have the same type and same number of dimensions.")
  ELSE ObjectLoop(flat, i + 1, base)

SignedSizes == {1, 2, 4, 8, 16}

UnsignedSizes == {1, 2, 4, 8, 16}

\* Faulty variant: a one-byte float let through.
FloatSizesWithOne == {1, 2, 4, 8, 16}
FloatSizes == {2, 4, 8, 16}

\* The if/elif chain on arr.dtype.
DtypeError(arr) ==
  IF arr.dtype.kind = "signedinteger"
    THEN IF arr.dtype.itemsize \notin SignedSizes
           THEN Raise("TypeError", "Element array has signed integer element with unsuported size.")
           ELSE OK
  ELSE IF arr.dtype.kind = "unsignedinteger"
    THEN IF arr.dtype.itemsize \notin UnsignedSizes
           THEN Raise("TypeError", "Element array has unsigned integer element with unsuported size.")
           ELSE OK
  ELSE IF arr.dtype.kind = "floating"
    THEN IF arr.dtype.itemsize \notin FloatSizes
           THEN Raise("TypeError", "Element array has float element with unsuported size.")
           ELSE OK
  ELSE IF arr.dtype.kind = "object"
    THEN ObjectLoop(arr.flat, 1, CellNone)
  ELSE Raise("TypeError", "Element array has unsupported type.")

\* The value of the local 'shape' before the first property of an element is seen.
ShapeNone == <<-1>>

\* if shape==None: shape = arr.shape / else: if shape!=arr.shape: raise
\* Faulty variant: only the leading dimensions of the shapes are compared.
Lead(shape) == IF shape = <<>> THEN 0 ELSE shape[1]
ShapeErrorLeadingOnly(shape, arr) ==
  IF shape # ShapeNone /\ Lead(shape) # Lead(arr.shape)
    THEN Raise("RuntimeError", "Shapes of all properties in an element must match")
    ELSE OK
ShapeError(shape, arr) ==
  IF shape # ShapeNone /\ shape # arr.shape
    THEN Raise("RuntimeError", "Shapes of all properties in an element must match")
    ELSE OK

PropNameError(prop) ==
  IF ~IsBasestring(prop) THEN Raise("TypeError", "Property name must be a string.")
  ELSE IF NameHasWhitespace(prop.v) THEN Raise("KeyError", "Name of property contains white space.")
  ELSE OK

ArrayError(arr) ==
  IF arr.t # "ndarray" THEN Raise("TypeError", "Element data must be represented as a ndarray.")
  ELSE OK

\* One pass of the loop over the properties of an element.
PropertyError(prop, arr, shape) ==
  IF PropNameError(prop) # OK THEN PropNameError(prop)
  ELSE IF ArrayError(arr) # OK THEN ArrayError(arr)
  ELSE IF ShapeError(shape, arr) # OK THEN ShapeError(shape, arr)
  ELSE DtypeError(arr)

RECURSIVE PropertyLoop(_, _, _)
PropertyLoop(props, i, shape) ==
  IF i > Len(props) THEN OK
  ELSE IF PropertyError(props[i][1], props[i][2], shape) # OK
    THEN PropertyError(props[i][1], props[i][2], shape)
  ELSE PropertyLoop(props, i + 1, IF shape = ShapeNone THEN props[i][2].shape ELSE shape)

\* One pass of the loop over data['element'].
ElementError(key, value) ==
  IF ~IsBasestring(key) THEN Raise("TypeError", "Element name must be a string.")
  ELSE IF NameHasWhitespace(key.v) THEN Raise("KeyError", "Name of element contains white space.")
  ELSE PropertyLoop(value, 1, ShapeNone)

RECURSIVE ElementLoop(_, _)
ElementLoop(items, i) ==
  IF i > Len(items) THEN OK
  ELSE IF ElementError(items[i][1], items[i][2]) # OK
    THEN ElementError(items[i][1], items[i][2])
  ELSE ElementLoop(items, i + 1)

\* Loop and check all elements, including all details...
VerifyElement(d) == IF "element" \in DOMAIN d THEN ElementLoop(d["element"], 1) ELSE OK

\* ------------------------------------------------------ state machine
\*
\* data     the dictionary the caller holds
\* pc       "idle", the section verify is about to check, "returned" or "raised"
\* err      the exception verify raised in the current or last call, OK if none
\* examined the sections the current or last call of verify has checked, in order
\* snapshot data as it was when verify was called
\* last     <<outcome>> of the previous call of verify on this dictionary, <<>> if none
\* calls    how many times verify has been called
\* origin   how the dictionary came about: built by the caller, or create's arguments

\* The section verify moves on to when a section's checks pass.
\* Faulty variant: compress checked before comment.
NextSectionCompressFirst(sec) ==
  CASE sec = "root" -> "format"
    [] sec = "format" -> "type"
    [] sec = "type" -> "meta"
    [] sec = "meta" -> "compress"
    [] sec = "compress" -> "comment"
    [] sec = "comment" -> "element"
    [] sec = "element" -> "returned"
NextSection(sec) ==
  CASE sec = "root" -> "format"
    [] sec = "format" -> "type"
    [] sec = "type" -> "meta"
    [] sec = "meta" -> "comment"
    [] sec = "comment" -> "compress"
    [] sec = "compress" -> "element"
    [] sec = "element" -> "returned"

ByCaller == [by |-> "caller", binary |-> FALSE, compress |-> 0]

ByCreate(binary, compress) == [by |-> "create", binary |-> binary, compress |-> compress]

\* The caller calls create(binary, compress) and holds the result.
Create ==
  /\ pc = "idle"
  /\ \E binary \in BOOLEAN, compress \in -1..3, byteorder \in byteorders :
       /\ data' = create(binary, compress, byteorder)
       /\ origin' = ByCreate(binary, compress)
  /\ err' = OK
  /\ examined' = <<>>
  /\ snapshot' = data'
  /\ last' = <<>>
  /\ UNCHANGED <<pc, calls>>

\* The caller calls verify(data).
Call ==
  /\ pc = "idle"
  /\ calls < MaxCalls
  /\ pc' = "root"
  /\ err' = OK
  /\ examined' = <<>>
  /\ snapshot' = data
  /\ calls' = calls + 1
  /\ UNCHANGED <<data, last, origin>>

\* verify checks section sec: e is the exception its checks raise, OK if none.
Check(sec, e) ==
  /\ pc = sec
  /\ examined' = Append(examined, sec)
  /\ IF e # OK
       THEN pc' = "raised" /\ err' = e
       ELSE pc' = NextSection(sec) /\ err' = err
  /\ UNCHANGED <<snapshot, last, calls, origin>>

CheckRootKeys == Check("root", VerifyRootKeys(data)) /\ UNCHANGED data

CheckFormat == Check("format", VerifyFormat(data)) /\ UNCHANGED data

CheckType == Check("type", VerifyType(data)) /\ UNCHANGED data

CheckMeta == Check("meta", VerifyMeta(data)) /\ UNCHANGED data

CheckComment == Check("comment", VerifyComment(data)) /\ UNCHANGED data

\* Faulty variant: the section rewrites compress '' to None in the caller's dictionary.
CheckCompressNormalising ==
  /\ Check("compress", VerifyCompress(data))
  /\ data' = IF "compress" \in DOMAIN data /\ data["compress"] = PyStr("")
               THEN [data EXCEPT !["compress"] = None]
               ELSE data
CheckCompress == Check("compress", VerifyCompress(data)) /\ UNCHANGED data

CheckElement == Check("element", VerifyElement(data)) /\ UNCHANGED data

\* verify returns, or its exception reaches the caller.
Return ==
  /\ pc \in {"returned", "raised"}
  /\ pc' = "idle"
  /\ last' = <<err>>
  /\ UNCHANGED <<data, err, examined, snapshot, calls, origin>>

Next ==
  \/ Create
  \/ Call
  \/ CheckRootKeys
  \/ CheckFormat
  \/ CheckType
  \/ CheckMeta
  \/ CheckComment
  \/ CheckCompress
  \/ CheckElement
  \/ Return

\* The state when the caller holds the dictionary d and has not called verify.
Holding(d) ==
  /\ data = d
  /\ pc = "idle"
  /\ err = OK
  /\ examined = <<>>
  /\ snapshot = d
  /\ last = <<>>
  /\ calls = 0
  /\ origin = ByCaller

\* ------------------------------------------- the dictionaries drawn
\*
\* The caller populates the dictionary by direct mutation, so any nest of
\* values can reach verify.  Each specification draws the part of the
\* dictionary its claims are about and leaves the rest as create() made it.

Base == create(FALSE, 0, "little")

\* d with d[k] = v
With(d, k, v) == [x \in DOMAIN d \cup {k} |-> IF x = k THEN v ELSE d[x]]

SeqsUpTo(S, n) == UNION {[1..m -> S] : m \in 0..n}

Strings == SeqsUpTo(Chars, MaxLen)

\* The i-th of the distinct well-formed names "a", "aa", "aaa", ...
Name(i) == PyStr([j \in 1..i |-> "a"])

int32 == Dtype("signedinteger", 4)

float64 == Dtype("floating", 8)

object == Dtype("object", 8)

\* A well-formed property array.
GoodArray == ndarray(<<2>>, int32, <<>>)

\* names: a type entry, a meta name, an element name and a property name
NameValues == {PyStr(s) : s \in Strings} \cup {Py("int", <<>>)}

NameDocs ==
  {With(Base, "type", Py("list", <<n>>)) : n \in NameValues}
    \cup {With(Base, "type", Py("list", <<Name(1), n>>)) : n \in NameValues}
    \cup {With(Base, "meta", <<<<n, PyStr(<<"a">>)>>>>) : n \in NameValues}
    \cup {With(Base, "element", <<<<n, <<>>>>>>) : n \in NameValues}
    \cup {With(Base, "element", <<<<Name(1), <<<<n, GoodArray>>>>>>>>) : n \in NameValues}
    \cup {With(Base, "element", <<<<Name(1), <<<<Name(1), GoodArray>>, <<n, GoodArray>>>>>>>>) :
            n \in NameValues \ {Name(1)}}

\* meta values of every kind
MetaTypes == {"str", "unicode", "int", "long", "float", "bool", "NoneType", "list", "dict", "ndarray"}

MetaValues == {Py(type, <<>>) : type \in MetaTypes}

MetaDocs ==
  {With(Base, "meta", <<<<Name(1), v>>>>) : v \in MetaValues}
    \cup {With(Base, "meta", <<<<Name(1), v>>, <<Name(2), w>>>>) : v \in MetaValues, w \in MetaValues}

\* comment dictionaries
CommentKeys == {Py("int", k) : k \in -1..MaxComments} \cup {PyStr(<<"a">>)}

CommentValues == {PyStr(<<>>), PyStr(<<"a">>), PyStr(<<"a", "\n">>), PyStr(<<"\n", "a">>), None}

Dicts(K, V, n) ==
  {d \in SeqsUpTo(K \X V, n) : \A i \in 1..Len(d), j \in 1..Len(d) : d[i][1] = d[j][1] => i = j}

CommentDocs == {With(Base, "comment", c) : c \in Dicts(CommentKeys, CommentValues, MaxComments)}

\* dtypes of every kind and width
Kinds == {"signedinteger", "unsignedinteger", "floating", "object", "bool_", "complexfloating", "string_"}

Dtypes == {Dtype(kind, itemsize) : kind \in Kinds \ {"object"}, itemsize \in 1..MaxItemsize}

DtypeDocs ==
  {With(Base, "element", <<<<Name(1), <<<<Name(1), ndarray(<<2>>, dt, <<>>)>>>>>>>>) : dt \in Dtypes}
    \cup {With(Base, "element",
               <<<<Name(1), <<<<Name(1), GoodArray>>, <<Name(2), ndarray(<<2>>, dt, <<>>)>>>>>>>>) :
            dt \in Dtypes}

\* object arrays
Cells ==
  {CellStr, CellInt, CellNone, CellTrue,
   CellArray(int32, 1), CellArray(int32, 2), CellArray(float64, 1)}

ObjectArrays == {ndarray(<<Len(flat)>>, object, flat) : flat \in SeqsUpTo(Cells, MaxCells)}

ObjectDocs == {With(Base, "element", <<<<Name(1), <<<<Name(1), arr>>>>>>>>) : arr \in ObjectArrays}

\* elements whose properties differ in shape and dtype
Shapes == SeqsUpTo(1..2, MaxRank)

RECURSIVE Size(_)
Size(shape) == IF shape = <<>> THEN 1 ELSE Head(shape) * Size(Tail(shape))

ShapeArrays ==
  {ndarray(shape, dt, <<>>) : shape \in Shapes, dt \in {int32, float64}}
    \cup {ndarray(shape, object, [j \in 1..Size(shape) |-> CellStr]) : shape \in Shapes}

PropertyLists ==
  {props \in SeqsUpTo(ShapeArrays, MaxProps) : Len(props) >= 1}

ShapeDocs ==
  {With(Base, "element", <<<<Name(1), [j \in 1..Len(props) |-> <<Name(j), props[j]>>]>>>>) :
     props \in PropertyLists}

SpecNames == (\E d \in NameDocs : Holding(d)) /\ [][Next]_vars

SpecMeta == (\E d \in MetaDocs : Holding(d)) /\ [][Next]_vars

SpecComment == (\E d \in CommentDocs : Holding(d)) /\ [][Next]_vars

SpecDtype == (\E d \in DtypeDocs : Holding(d)) /\ [][Next]_vars

SpecObject == (\E d \in ObjectDocs : Holding(d)) /\ [][Next]_vars

SpecShape == (\E d \in ShapeDocs : Holding(d)) /\ [][Next]_vars

\* whole dictionaries: each root key absent (<<>>) or holding one of a few values
BadName == PyStr(<<"a", " ", "a">>)

NotArray == Value("list", <<>>, object, <<>>)

int24 == Dtype("signedinteger", 3)

FormatChoices == {<<>>, <<"ascii">>, <<"binary">>}

TypeChoices == {<<>>, <<Py("list", <<Name(1)>>)>>, <<Py("list", <<BadName>>)>>}

MetaChoices ==
  {<<>>,
   <<<<<<Name(1), PyStr(<<"a">>)>>, <<Name(2), Py("float", <<>>)>>>>>>,
   <<<<<<BadName, PyStr(<<"a">>)>>>>>>,
   <<<<<<Name(1), Py("list", <<>>)>>>>>>,
   <<<<<<Name(1), Py("bool", <<>>)>>>>>>}

CommentChoices ==
  {<<>>,
   <<<<<<Py("int", 1), PyStr(<<"a">>)>>, <<Py("int", 0), PyStr(<<>>)>>>>>>,
   <<<<<<Py("int", 0), PyStr(<<"a">>)>>, <<Py("int", 2), PyStr(<<"a">>)>>>>>>,
   <<<<<<Py("int", 0), PyStr(<<"a", "\n", "a">>)>>>>>>}

CompressChoices == {<<>>, <<PyStr("")>>, <<PyStr("gzip")>>, <<PyStr("zip")>>}

ExtraChoices == {<<>>, <<None>>}

ElementChoices ==
  {<<>>,
   <<<<>>>>,
   <<<<<<Name(1), <<<<Name(1), GoodArray>>, <<Name(2), ndarray(<<2>>, float64, <<>>)>>>>>>,
       <<Name(2), <<<<Name(1), ndarray(<<1>>, object, <<CellStr>>)>>>>>>>>>>,
   <<<<<<BadName, <<<<Name(1), GoodArray>>>>>>>>>>,
   <<<<<<Name(1), <<<<BadName, GoodArray>>>>>>>>>>,
   <<<<<<Name(1), <<<<Name(1), NotArray>>>>>>>>>>,
   <<<<<<Name(1), <<<<Name(1), GoodArray>>, <<Name(2), ndarray(<<2, 1>>, int32, <<>>)>>>>>>>>>>,
   <<<<<<Name(1), <<<<Name(1), ndarray(<<2>>, int24, <<>>)>>>>>>>>>>,
   <<<<<<Name(1), <<<<Name(1), ndarray(<<2>>, object, <<CellStr, CellArray(int32, 1)>>)>>>>>>>>>>,
   <<<<<<Name(1), <<<<Name(1), ndarray(<<1>>, object, <<CellInt>>)>>>>>>>>>>,
   <<<<<<Name(1), <<<<Name(1), ndarray(<<2>>, object, <<CellArray(int32, 1), CellArray(int32, 1)>>)>>>>>>>>>>,
   <<<<<<BadName, <<<<BadName, NotArray>>>>>>>>>>,
   <<<<<<Name(1), <<<<BadName, NotArray>>>>>>>>>>,
   <<<<<<Name(1), <<<<Name(1), GoodArray>>, <<Name(2), NotArray>>>>>>>>>>,
   <<<<<<Name(1), <<<<Name(1), GoodArray>>, <<Name(2), ndarray(<<3>>, int24, <<>>)>>>>>>>>>>,
   <<<<<<Name(1), <<<<Name(1), ndarray(<<2>>, int24, <<>>)>>, <<Name(2), ndarray(<<3>>, int32, <<>>)>>>>>>>>>>,
   <<<<<<Name(1), <<<<Name(1), GoodArray>>>>>>,
       <<Name(2), <<<<Name(1), GoodArray>>, <<Name(2), ndarray(<<3>>, int32, <<>>)>>>>>>>>>>}

\* The root dictionary with each key present when its choice is, plus a disallowed key.
Doc(f, t, m, c, z, e, x) ==
  LET choice == [k \in RootKeys \cup {"extra"} |->
                   CASE k = "format" -> f
                     [] k = "type" -> t
                     [] k = "meta" -> m
                     [] k = "comment" -> c
                     [] k = "compress" -> z
                     [] k = "element" -> e
                     [] k = "extra" -> x]
  IN [k \in {j \in DOMAIN choice : choice[j] # <<>>} |-> choice[k][1]]

Docs ==
  {Doc(f, t, m, c, z, e, x) :
     f \in FormatChoices, t \in TypeChoices, m \in MetaChoices, c \in CommentChoices,
     z \in CompressChoices, e \in ElementChoices, x \in ExtraChoices}

Init == \E d \in Docs : Holding(d)

Spec == Init /\ [][Next]_vars

Finished == pc \in {"returned", "raised"}

\* ------------------------------------------------------------ claims

\* The document invariants, stated on the dictionary and not by way of verify.

Get(d, k) == IF k \in DOMAIN d THEN d[k] ELSE <<>>

TypeEntries(d) == IF "type" \in DOMAIN d THEN {d["type"].v[j] : j \in 1..Len(d["type"].v)} ELSE {}

\* Every <<property name, value>> pair of every element.
Properties(d) ==
  UNION {{Get(d, "element")[i][2][j] : j \in 1..Len(Get(d, "element")[i][2])} :
           i \in 1..Len(Get(d, "element"))}

AllNames(d) ==
  TypeEntries(d) \cup Keys(Get(d, "meta")) \cup Keys(Get(d, "element"))
    \cup {p[1] : p \in Properties(d)}

\* A single non-empty token with no whitespace character in it.
Token(s) == s # <<>> /\ \A j \in 1..Len(s) : s[j] # " " /\ s[j] # "\n"

SingleLine(s) == \A j \in 1..Len(s) : s[j] # "\n"

RootKeysValid(d) == DOMAIN d \subseteq {"format", "type", "meta", "comment", "compress", "element"}

EnumsValid(d) ==
  /\ "format" \in DOMAIN d => d["format"] \in {"ascii", "binary_little_endian", "binary_big_endian"}
  /\ "compress" \in DOMAIN d =>
       d["compress"] \in {None, PyStr(""), PyStr("gzip"), PyStr("bzip2")}

NamesValid(d) == \A n \in AllNames(d) : Token(n.v)

MetaValuesValid(d) ==
  \A j \in 1..Len(Get(d, "meta")) :
    Get(d, "meta")[j][2].t \in {"str", "unicode", "int", "long", "float"}

CommentValid(c) ==
  /\ Keys(c) = {Py("int", k) : k \in 0..(Len(c) - 1)}
  /\ \A j \in 1..Len(c) : c[j][2].t \in {"str", "unicode"} /\ SingleLine(c[j][2].v)

ShapesAgree(props) ==
  \A j \in 1..Len(props), k \in 1..Len(props) : props[j][2].shape = props[k][2].shape

ShapesValid(d) == \A i \in 1..Len(Get(d, "element")) : ShapesAgree(Get(d, "element")[i][2])

LegalDtype(dt) ==
  \/ dt.kind \in {"signedinteger", "unsignedinteger"} /\ dt.itemsize \in {1, 2, 4, 8, 16}
  \/ dt.kind = "floating" /\ dt.itemsize \in {2, 4, 8, 16}
  \/ dt.kind = "object"

DtypesValid(d) == \A p \in Properties(d) : LegalDtype(p[2].dtype)

StringMode(flat) == \A j \in 1..Len(flat) : flat[j].t = "str"

ArrayMode(flat) ==
  \A j \in 1..Len(flat), k \in 1..Len(flat) :
    /\ flat[j].t = "ndarray"
    /\ flat[j].dtype = flat[k].dtype
    /\ flat[j].ndim = flat[k].ndim

ObjectModesValid(d) ==
  \A p \in Properties(d) : p[2].dtype.kind = "object" => StringMode(p[2].flat) \/ ArrayMode(p[2].flat)

\* Every name is a string and every property value an array: the dictionaries
\* the eight invariants speak about.
WellTyped(d) ==
  /\ \A n \in AllNames(d) : IsBasestring(n)
  /\ \A p \in Properties(d) : p[2].t = "ndarray"

ShapeMismatch == Raise("RuntimeError", "Shapes of all properties in an element must match")

\* C1: verify rejects every dictionary with an element holding two properties
\* whose whole shape tuples differ, whatever their dtypes and whichever is
\* visited first, and never raises the shape-mismatch error for a dictionary
\* whose elements' properties all agree in shape.
C1_ShapeAgreement ==
  Finished =>
    /\ ~ShapesValid(data) => err # OK
    /\ ShapesValid(data) => err # ShapeMismatch

\* Two properties with the same leading dimension but different shapes and
\* different dtypes, the object one visited first, were rejected for their shapes.
C1_Witness ==
  /\ pc = "raised"
  /\ err = ShapeMismatch
  /\ \E i \in 1..Len(Get(data, "element")) :
       LET props == Get(data, "element")[i][2]
       IN /\ Len(props) = 2
          /\ props[1][2].shape = <<2, 1>>
          /\ props[2][2].shape = <<2>>
          /\ props[1][2].dtype = object
          /\ props[2][2].dtype = float64

\* C2: verify accepts an object property only if every cell is a string, or
\* every cell is a nested array agreeing with every other cell in dtype and
\* number of dimensions.
C2_ObjectModes == Finished /\ err = OK => ObjectModesValid(data)

\* C4: verify accepts the comment mapping exactly when its keys are 0..n-1
\* and every value is a string without a line break.
C4_CommentIndexing ==
  Finished /\ "comment" \in DOMAIN data => (err = OK <=> CommentValid(data["comment"]))

\* Two comments, found under the keys 0 and 1 in the other order, were accepted.
C4_Witness ==
  /\ pc = "returned"
  /\ Len(Get(data, "comment")) = 2
  /\ Get(data, "comment")[1][1] = Py("int", 1)

\* C5: with every name a string, verify accepts exactly when every type
\* entry, meta name, element name and property name is a single non-empty
\* token without whitespace; one rule for the four kinds of name.
C5_NameTokens ==
  Finished /\ (\A n \in AllNames(data) : IsBasestring(n)) => (err = OK <=> NamesValid(data))

\* A property name with internal whitespace only was rejected.
C5_Witness ==
  /\ pc = "raised"
  /\ err = Raise("KeyError", "Name of property contains white space.")
  /\ \E p \in Properties(data) : p[1] = PyStr(<<"a", "\n", "a">>)

\* C6: verify accepts a numeric dtype exactly when its width is legal for its
\* kind (integers 1, 2, 4, 8, 16; floats 2, 4, 8, 16), and rejects a dtype
\* that is neither integer, float nor object.
C6_WidthLegality == Finished => (err = OK <=> DtypesValid(data))

\* A 16-byte float column was accepted.
C6_Witness ==
  /\ pc = "returned"
  /\ \E p \in Properties(data) : p[2].dtype = Dtype("floating", 16)

\* C7: verify accepts a meta value exactly when it is a string, an integer of
\* any magnitude or a float.
C7_MetaScalars == Finished => (err = OK <=> MetaValuesValid(data))

\* C8: verify leaves the dictionary as it was when called, whether it
\* returns or raises, and a second call has the outcome of the first.
C8_NoSideEffects ==
  /\ data = snapshot
  /\ Finished /\ last # <<>> => err = last[1]

\* A second call on a dictionary with elements raised again.
C8_Witness ==
  /\ pc = "raised"
  /\ last # <<>>
  /\ calls = 2
  /\ examined[Len(examined)] = "element"
  /\ Get(data, "compress") = PyStr("")

\* The eight kinds of violation and the invariant each one breaks.
Kinds8 ==
  {"root keys", "enum value", "name whitespace", "meta value type", "comment indexing",
   "dtype width", "shape mismatch", "object mode"}

KindValid(kind, d) ==
  CASE kind = "root keys" -> RootKeysValid(d)
    [] kind = "enum value" -> EnumsValid(d)
    [] kind = "name whitespace" -> NamesValid(d)
    [] kind = "meta value type" -> MetaValuesValid(d)
    [] kind = "comment indexing" -> CommentValid(Get(d, "comment"))
    [] kind = "dtype width" -> DtypesValid(d)
    [] kind = "shape mismatch" -> ShapesValid(d)
    [] kind = "object mode" -> ObjectModesValid(d)

ViolatedKinds(d) == {kind \in Kinds8 : ~KindValid(kind, d)}

\* What a caller can tell from the exception: its class and message name one kind.
ErrorKind(e) ==
  CASE e.msg = "Root dictionary includes disallowed keys." -> "root keys"
    [] e.msg = "Unrecognised format." -> "enum value"
    [] e.msg \in {"Type string contains whitespace.",
                  "Name of meta variable contains white space.",
                  "Name of element contains white space.",
                  "Name of property contains white space."} -> "name whitespace"
    [] e.msg = "Unsuported meta variable type." -> "meta value type"
    [] e.msg \in {"Comments not indexed with contiguous natural numbers starting at zero",
                  "Comment line not an instance of basestring.",
                  "Comment line contains new line."} -> "comment indexing"
    [] e.msg \in {"Element array has signed integer element with unsuported size.",
                  "Element array has unsigned integer element with unsuported size.",
                  "Element array has float element with unsuported size.",
                  "Element array has unsupported type."} -> "dtype width"
    [] e.msg = "Shapes of all properties in an element must match" -> "shape mismatch"
    [] e.msg \in {"All entrys in an element array of strings must be a string.",
                  "All entrys in an array of arrays must have the same type and same number of dimensions.",
                  "object has no attribute 'dtype'"} -> "object mode"
    [] OTHER -> "none"

\* C3: a dictionary that breaks exactly one of the eight invariants is
\* rejected with an error of that kind, and one that breaks none is accepted.
C3_ValidatorCompleteness ==
  Finished /\ WellTyped(data) =>
    /\ ViolatedKinds(data) = {} => err = OK
    /\ \A kind \in Kinds8 : ViolatedKinds(data) = {kind} => err # OK /\ ErrorKind(err) = kind

\* The order of the sections, and what each one's checks raise on d.
SectionOrder == <<"root", "format", "type", "meta", "comment", "compress", "element">>

SectionError(sec, d) ==
  CASE sec = "root" -> VerifyRootKeys(d)
    [] sec = "format" -> VerifyFormat(d)
    [] sec = "type" -> VerifyType(d)
    [] sec = "meta" -> VerifyMeta(d)
    [] sec = "comment" -> VerifyComment(d)
    [] sec = "compress" -> VerifyCompress(d)
    [] sec = "element" -> VerifyElement(d)

\* The four checks of the j-th property visited, in the order name,
\* array-ness, shape agreement with the first property, dtype.
SubChecks(props, j) ==
  <<PropNameError(props[j][1]),
    ArrayError(props[j][2]),
    IF j > 1 /\ props[j][2].shape # props[1][2].shape THEN ShapeMismatch ELSE OK,
    DtypeError(props[j][2])>>

FirstFailure(checks) ==
  IF \A c \in 1..Len(checks) : checks[c] = OK THEN OK
  ELSE checks[CHOOSE c \in 1..Len(checks) :
                checks[c] # OK /\ \A b \in 1..(c - 1) : checks[b] = OK]

\* The first failure of the first failing property of an element's properties.
FirstPropertyFailure(props) ==
  FirstFailure([j \in 1..Len(props) |-> FirstFailure(SubChecks(props, j))])

\* C9: verify examines the sections in the order root keys, format, type,
\* meta, comment, compress, element and stops at the first whose checks
\* fail: the error is that section's, every earlier section passes and no
\* later one is examined; within a property the checks run in the order
\* name, array-ness, shape agreement, dtype.
C9_FirstViolation ==
  /\ examined = SubSeq(SectionOrder, 1, Len(examined))
  /\ pc = "returned" =>
       /\ examined = SectionOrder
       /\ \A k \in 1..Len(SectionOrder) : SectionError(SectionOrder[k], data) = OK
  /\ err # OK =>
       /\ pc \in {"raised", "idle"}
       /\ err = SectionError(examined[Len(examined)], data)
       /\ \A k \in 1..(Len(examined) - 1) : SectionError(examined[k], data) = OK
       /\ examined[Len(examined)] = "element" =>
            \E i \in 1..Len(data["element"]) :
              /\ \A h \in 1..(i - 1) :
                   ElementError(data["element"][h][1], data["element"][h][2]) = OK
              /\ NameHasWhitespace(data["element"][i][1].v)
                   \/ err = FirstPropertyFailure(data["element"][i][2])

\* A dictionary whose comment, compress and element sections all fail was
\* rejected for its comments, with nothing after them examined.
C9_Witness ==
  /\ pc = "raised"
  /\ examined = <<"root", "format", "type", "meta", "comment">>
  /\ VerifyCompress(data) # OK
  /\ VerifyElement(data) # OK

\* C10: whatever binary and compress are, the dictionary create returns has
\* only allowed root keys, format 'ascii' without binary and a native-endian
\* binary format with it, compress None, 'gzip' or 'bzip2', empty meta,
\* comment and element, satisfies every invariant, and is accepted by verify.
C10_CreateValid ==
  origin.by = "create" =>
    /\ \A kind \in Kinds8 : KindValid(kind, data)
    /\ DOMAIN data = {"format", "meta", "comment", "compress", "element"}
    /\ data["format"] \in
         (IF origin.binary THEN {"binary_little_endian", "binary_big_endian"} ELSE {"ascii"})
    /\ data["compress"] \in {None, PyStr("gzip"), PyStr("bzip2")}
    /\ data["compress"] = None <=> origin.compress = 0
    /\ data["meta"] = <<>> /\ data["comment"] = <<>> /\ data["element"] = <<>>
    /\ pc # "raised"
    /\ err = OK

\* verify returned normally on create(True, 3).
C10_Witness ==
  /\ origin = ByCreate(TRUE, 3)
  /\ pc = "returned"
  /\ examined = SectionOrder

====
